---- MODULE Spec2Model ----
(***************************************************************************)
(* The retrieval-and-ranking pipeline of the HyperLiquid agent:            *)
(* HyperLiquidAgent.search_mentions (agent.py), VectorStore.search and     *)
(* VectorStore._deduplicate_results (vector_store.py) and                  *)
(* AdvancedCohereReranker.rerank (reranker.py, the second definition of    *)
(* rerank at line 610, which is the one the class ends up with).           *)
(*                                                                         *)
(* Scores are integers: relevance, recency and importance in thousandths   *)
(* (1000 = 1.0), final_score and hybrid_score in ten-thousandths.          *)
(* A query is a sequence of words; the string is the words joined by       *)
(* blanks.  A document is a record; a key a Python dict does not hold is   *)
(* the value NoScore.                                                      *)
(***************************************************************************)
EXTENDS Integers, Sequences, FiniteSets, TLC

\* ---------------------------------------------------------------- bounds
\* rows one vector-index query returns at most
MaxHits == 2
\* entries in one response of the rerank service
MaxResp == 2
\* length of the hit sequences handed to a direct _deduplicate_results call
MaxLen == 3

\* ------------------------------------------------------ program constants
TopKLimit == 50
VariantTopK == 5
SearchRetries == 3
max_retries == 3
retry_delay == 1
MinContent == 10
relevance_threshold == 100
MaxExpansions == 4

\* ------------------------------------------------------------- sentinels
\* a dict key that is absent (result.get(key) would give its default)
NoScore == 0 - 1
\* a field whose value is None
Null == "None"
\* the length of a field whose value is None
NullLen == 0 - 1
\* the days_ago the code reports for an unknown date
UnknownDays == 999

Min(a, b) == IF a < b THEN a ELSE b
Max(a, b) == IF a > b THEN a ELSE b

\* Python's s[:k]: the first k elements, or all but the last -k when k < 0
Slice(s, k) ==
    IF k >= 0 THEN SubSeq(s, 1, Min(k, Len(s)))
    ELSE SubSeq(s, 1, Max(Len(s) + k, 0))

\* sorted(s, key=lambda x: x.get(key, 0), reverse=True): descending by the
\* value under key, equal values keep their order (Python's sort is stable,
\* also with reverse=True).  Every element holds the key when the code sorts.
RECURSIVE InsertDesc(_, _, _)
InsertDesc(sorted, x, key) ==
    IF sorted = <<>> THEN <<x>>
    ELSE IF Head(sorted)[key] >= x[key]
         THEN <<Head(sorted)>> \o InsertDesc(Tail(sorted), x, key)
         ELSE <<x>> \o sorted

RECURSIVE SortedDescFrom(_, _, _)
SortedDescFrom(acc, s, key) ==
    IF s = <<>> THEN acc
    ELSE SortedDescFrom(InsertDesc(acc, Head(s), key), Tail(s), key)

SortedDesc(s, key) == SortedDescFrom(<<>>, s, key)

\* ---------------------------------------------------------------- corpus
(* The rows of the vector index, as VectorStore.search converts them       *)
(* (vector_store.py 74-89): id, text and the metadata attributes.  A text  *)
(* or title is given by its length; published_at by the kind of value      *)
(* stored and, when it is a date, by its age in days.                      *)
(*   kind "iso"     a date string both scorers parse                       *)
(*   kind "space"   'YYYY-MM-DD HH:MM:SS': datetime.fromisoformat parses   *)
(*                  it, the reranker's strptime loop does not              *)
(*   kind "garbage" a string no parser accepts                             *)
(*   kind "none"    the attribute is None                                  *)
(*   kind "empty"   the empty string                                       *)
(* keywords: how many of the high-impact, financial and technical keywords  *)
(* of agent.py 319-333 the text holds.  channel_name, summary and          *)
(* hyperliquid_tokens are empty strings in every row.                      *)
Row(id, url, title, text, keywords, source, channel, pubKind, days) ==
    [id |-> id, url |-> url, title |-> title, text |-> text,
     keywords |-> keywords, source |-> source, channel_type |-> channel,
     published_at |-> [kind |-> pubKind, days |-> days],
     cohere_score |-> NoScore, cohere_rank |-> NoScore,
     original_index |-> NoScore, days_ago |-> NoScore,
     recency_score |-> NoScore, final_score |-> NoScore,
     importance_score |-> NoScore, hybrid_score |-> NoScore]

\* an old article of an unknown outlet
RowOld == Row(1, "http://a", 20, 600, <<4, 1, 0>>, "someblog", "rss", "iso", 400)
\* a fresh, short chunk of the same article url, posted on a social platform
RowNew == Row(2, "http://a", 20, 50, <<0, 0, 2>>, "telegram", "forum", "iso", 0)
\* a row stored without title, channel type and date
RowNull == Row(3, "", NullLen, 30, <<0, 0, 0>>, "telegram", Null, "none", 0)

Corpus == {RowOld, RowNew, RowNull}

\* a complete row but for its date: search stores published_at None for it
RowUndated == Row(4, "http://b", 20, 200, <<0, 0, 0>>, "telegram", "news", "none", 0)

\* rows that hold a text and nothing else: their representation is
\* "CONTENT: " and the text, 10 and 11 characters long
RowShort == Row(6, "", 0, 1, <<0, 0, 0>>, "", "forum", "empty", 0)
RowBrief == Row(7, "", 0, 2, <<0, 0, 0>>, "", "forum", "empty", 0)

\* a second chunk as fresh, as short and from the same platform as RowNew:
\* both scorers give the two the same recency and importance
RowTwin == Row(5, "http://b", 20, 50, <<0, 0, 2>>, "telegram", "forum", "iso", 0)

Twins == {RowNew, RowTwin}

\* ------------------------------------------------- _deduplicate_results
\* the body of the loop at vector_store.py 177-181, one result at a time
RECURSIVE DedupFrom(_, _, _)
DedupFrom(seen_ids, unique_results, results) ==
    IF results = <<>> THEN unique_results
    ELSE LET result == Head(results)
             result_id == result.id
         IN IF result_id \notin seen_ids
            THEN DedupFrom(seen_ids \cup {result_id},
                           Append(unique_results, result), Tail(results))
            ELSE DedupFrom(seen_ids, unique_results, Tail(results))

\* a deduplication that keys a result by its url when it has one, by its id
\* otherwise
RECURSIVE DedupByKeyFrom(_, _, _, _)
DedupByKeyFrom(seen_urls, seen_ids, unique_results, results) ==
    IF results = <<>> THEN unique_results
    ELSE LET result == Head(results)
             byUrl == result.url # ""
             isNew == IF byUrl THEN result.url \notin seen_urls
                      ELSE result.id \notin seen_ids
         IN DedupByKeyFrom(IF byUrl THEN seen_urls \cup {result.url} ELSE seen_urls,
                           IF byUrl THEN seen_ids ELSE seen_ids \cup {result.id},
                           IF isNew THEN Append(unique_results, result)
                           ELSE unique_results,
                           Tail(results))

DeduplicateByUrlOrId(results) == DedupByKeyFrom({}, {}, <<>>, results)

\* a deduplication that forgets an id once it has dropped a duplicate of it
RECURSIVE DedupForgetfulFrom(_, _, _)
DedupForgetfulFrom(seen_ids, unique_results, results) ==
    IF results = <<>> THEN unique_results
    ELSE LET result == Head(results)
         IN IF result.id \notin seen_ids
            THEN DedupForgetfulFrom(seen_ids \cup {result.id},
                                    Append(unique_results, result), Tail(results))
            ELSE DedupForgetfulFrom(seen_ids \ {result.id}, unique_results,
                                    Tail(results))

DeduplicateForgetful(results) == DedupForgetfulFrom({}, <<>>, results)

\* no deduplication at all: the merged hits as they are
DeduplicatePassThrough(results) == results

DeduplicateResults(results) == DedupFrom({}, <<>>, results)

\* ------------------------------------------- _generate_related_queries
(* Words of the model's queries.  Every word either is one of the terms    *)
(* the code looks for, or holds none of them as a substring, so            *)
(* "term in query_lower" is "some word lowercases to the term" and         *)
(* str.replace(term, alt) replaces the words equal to term.                *)
Blank == " "

Lower(w) ==
    CASE w = "Price" -> "price"
      [] w = "HyperLiquid" -> "hyperliquid"
      [] OTHER -> w

InLower(term, q) == \E i \in DOMAIN q : Lower(q[i]) = term

StrReplace(q, old, new) == [i \in DOMAIN q |-> IF q[i] = old THEN new ELSE q[i]]

\* the replacements dict, in insertion order (agent.py 280-287)
Replacements ==
    << [term |-> "influencer", alts |-> <<"trader", "analyst", "whale", "investor">>],
       [term |-> "tweets", alts |-> <<"posts", "mentions", "comments", "discussions">>],
       [term |-> "recently", alts |-> <<"latest", "this week", "this month", "new">>],
       [term |-> "vault", alts |-> <<"vaults", "yield farming", "liquidity mining", "staking">>],
       [term |-> "price", alts |-> <<"value", "cost", "rate", "trading">>],
       [term |-> "volume", alts |-> <<"trading volume", "liquidity", "activity">>] >>

IsNewQuery(new_query, original_query) == new_query # original_query

RECURSIVE SynonymExpansions(_, _)
SynonymExpansions(original_query, i) ==
    IF i > Len(Replacements) THEN <<>>
    ELSE LET e == Replacements[i]
             alts == SubSeq(e.alts, 1, 2)
             cand == [j \in DOMAIN alts |-> StrReplace(original_query, e.term, alts[j])]
             mine == IF InLower(e.term, original_query)
                     THEN SelectSeq(cand, LAMBDA n : IsNewQuery(n, original_query))
                     ELSE <<>>
         IN mine \o SynonymExpansions(original_query, i + 1)

\* an expansion without the cut of line 304
GenerateRelatedQueriesUncut(original_query) ==
    SynonymExpansions(original_query, 1)
    \o (IF ~InLower("hyperliquid", original_query)
        THEN << <<"HyperLiquid">> \o original_query >> ELSE <<>>)
    \o (IF \E t \in {"token", "price", "trading", "volume"} : InLower(t, original_query)
        THEN << StrReplace(original_query, "HyperLiquid", "HYPE token") >> ELSE <<>>)

GenerateRelatedQueries(original_query) ==
    LET syn == SynonymExpansions(original_query, 1)
        hyper == IF ~InLower("hyperliquid", original_query)
                 THEN << <<"HyperLiquid">> \o original_query >>
                 ELSE <<>>
        hype == IF \E t \in {"token", "price", "trading", "volume"} :
                       InLower(t, original_query)
                THEN << StrReplace(original_query, "HyperLiquid", "HYPE token") >>
                ELSE <<>>
    IN Slice(syn \o hyper \o hype, MaxExpansions)

\* "not query or not query.strip()"
IsEmptyQuery(q) == \A i \in DOMAIN q : q[i] = Blank

\* ------------------------------------------------------------ reranker
\* the date strings of the model, by kind
DateLen(pub) ==
    CASE pub.kind = "iso" -> 10
      [] pub.kind = "space" -> 19
      [] pub.kind = "garbage" -> 4
      [] OTHER -> 0

\* _create_rich_document_context raises: .strip() of a field that is None
ContextRaises(result) ==
    \/ result.title = NullLen
    \/ result.source = Null
    \/ result.published_at.kind = "none"
    \/ result.text = NullLen
    \/ result.url = Null

\* len(final_doc) of _create_rich_document_context: the parts present, each
\* with its label, joined by newlines, cut to max_doc_length.  The texts of
\* the corpus fit the truncation budget of line 196.
max_doc_length == 1000

ContextLen(result) ==
    LET NameLen == 8   \* characters of every source name and url of the corpus
        parts == << IF result.title > 0 THEN 7 + result.title ELSE 0,
                    IF result.source # "" THEN 8 + NameLen ELSE 0,
                    IF DateLen(result.published_at) > 0
                        THEN 6 + DateLen(result.published_at) ELSE 0,
                    IF result.text > 0 THEN 9 + result.text ELSE 0,
                    IF result.url # "" THEN 5 + NameLen ELSE 0 >>
        present == {i \in DOMAIN parts : parts[i] > 0}
        total == parts[1] + parts[2] + parts[3] + parts[4] + parts[5]
                 + (IF present = {} THEN 0 ELSE Cardinality(present) - 1)
    IN Min(total, max_doc_length)

\* a preparation without the minimum content test of line 150
IsSubmittedAnyLength(result) == ~ContextRaises(result)

\* the test of line 150, with the except of line 156 skipping the document
IsSubmitted(result) == ~ContextRaises(result) /\ ContextLen(result) > MinContent

\* _prepare_documents_for_reranking: metadata_map as the sequence of the
\* original (0-based) indexes of the submitted documents, in document order
RECURSIVE PrepareFrom(_, _, _)
PrepareFrom(metadata_map, results, idx) ==
    IF idx >= Len(results) THEN metadata_map
    ELSE PrepareFrom(IF IsSubmitted(results[idx + 1])
                        THEN Append(metadata_map, idx) ELSE metadata_map,
                     results, idx + 1)

PrepareDocuments(results) == PrepareFrom(<<>>, results, 0)

\* a relevance_score float() cannot convert
BadScore == 0 - 2

\* _process_rerank_response: one response entry at a time
RECURSIVE ProcessFrom(_, _, _, _, _)
ProcessFrom(reranked_results, entries, rank_idx, original_results, metadata_map) ==
    IF rank_idx >= Len(entries) THEN reranked_results
    ELSE LET result == entries[rank_idx + 1]
             mapped == result.index \in 0 .. (Len(metadata_map) - 1)
             skip == \/ ~mapped
                     \/ result.relevance_score = BadScore
                     \/ result.relevance_score < relevance_threshold
             original_idx == metadata_map[result.index + 1]
             original_result ==
                 [original_results[original_idx + 1] EXCEPT
                     !.cohere_score = result.relevance_score,
                     !.cohere_rank = rank_idx + 1,
                     !.original_index = original_idx]
         IN ProcessFrom(IF skip THEN reranked_results
                        ELSE Append(reranked_results, original_result),
                        entries, rank_idx + 1, original_results, metadata_map)

\* a response processing that also drops the results exactly at the floor
RECURSIVE ProcessStrictFrom(_, _, _, _, _)
ProcessStrictFrom(reranked_results, entries, rank_idx, original_results, metadata_map) ==
    IF rank_idx >= Len(entries) THEN reranked_results
    ELSE LET result == entries[rank_idx + 1]
             skip == \/ result.index \notin 0 .. (Len(metadata_map) - 1)
                     \/ result.relevance_score = BadScore
                     \/ result.relevance_score <= relevance_threshold
             original_idx == metadata_map[result.index + 1]
             original_result ==
                 [original_results[original_idx + 1] EXCEPT
                     !.cohere_score = result.relevance_score,
                     !.cohere_rank = rank_idx + 1,
                     !.original_index = original_idx]
         IN ProcessStrictFrom(IF skip THEN reranked_results
                              ELSE Append(reranked_results, original_result),
                              entries, rank_idx + 1, original_results, metadata_map)

\* a response processing that gives up at the first entry it cannot map or
\* parse and returns what it has collected so far
RECURSIVE ProcessAbortingFrom(_, _, _, _, _)
ProcessAbortingFrom(reranked_results, entries, rank_idx, original_results, metadata_map) ==
    IF rank_idx >= Len(entries) THEN reranked_results
    ELSE LET result == entries[rank_idx + 1]
             broken == \/ result.index \notin 0 .. (Len(metadata_map) - 1)
                       \/ result.relevance_score = BadScore
             original_idx == metadata_map[result.index + 1]
             original_result ==
                 [original_results[original_idx + 1] EXCEPT
                     !.cohere_score = result.relevance_score,
                     !.cohere_rank = rank_idx + 1,
                     !.original_index = original_idx]
         IN IF broken THEN reranked_results
            ELSE ProcessAbortingFrom(
                     IF result.relevance_score < relevance_threshold
                     THEN reranked_results
                     ELSE Append(reranked_results, original_result),
                     entries, rank_idx + 1, original_results, metadata_map)

ProcessRerankResponseAborting(entries, original_results, metadata_map) ==
    ProcessAbortingFrom(<<>>, entries, 0, original_results, metadata_map)

ProcessRerankResponseStrict(entries, original_results, metadata_map) ==
    ProcessStrictFrom(<<>>, entries, 0, original_results, metadata_map)

ProcessRerankResponse(entries, original_results, metadata_map) ==
    ProcessFrom(<<>>, entries, 0, original_results, metadata_map)

\* the strptime loop of lines 539-552 finds a date
RerankerParses(pub) == pub.kind = "iso"

\* a decay table whose "last 3 months" and "this year" values are exchanged
RerankerRecencyScoreSwapped(pub) ==
    IF ~RerankerParses(pub) THEN 100
    ELSE CASE pub.days <= 1 -> 1000
           [] pub.days <= 7 -> 900
           [] pub.days <= 30 -> 700
           [] pub.days <= 90 -> 300
           [] pub.days <= 365 -> 500
           [] OTHER -> 100

\* AdvancedCohereReranker._calculate_recency_score
RerankerRecencyScore(pub) ==
    IF ~RerankerParses(pub) THEN 100
    ELSE CASE pub.days <= 1 -> 1000
           [] pub.days <= 7 -> 900
           [] pub.days <= 30 -> 700
           [] pub.days <= 90 -> 500
           [] pub.days <= 365 -> 300
           [] OTHER -> 100

\* _extract_days_ago
ExtractDaysAgo(pub) == IF RerankerParses(pub) THEN pub.days ELSE UnknownDays

GetScore(result, key) == IF result[key] = NoScore THEN 0 ELSE result[key]

\* _calculate_hybrid_scores, for one result
RerankerScored(result) ==
    LET cohere_score == GetScore(result, "cohere_score")
        recency_score == RerankerRecencyScore(result.published_at)
        days_ago == ExtractDaysAgo(result.published_at)
        final_score == 7 * cohere_score + 3 * recency_score
                       + (IF cohere_score > 800 THEN 1000 ELSE 0)
                       + (IF days_ago <= 7 THEN 500 ELSE 0)
    IN [result EXCEPT !.days_ago = days_ago,
                      !.recency_score = recency_score,
                      !.final_score = final_score]

CalculateHybridScores(results) == [i \in DOMAIN results |-> RerankerScored(results[i])]

\* _fallback_recency_sort
FallbackScored(result) ==
    [result EXCEPT !.recency_score = RerankerRecencyScore(result.published_at),
                   !.final_score = RerankerRecencyScore(result.published_at)]

\* a fallback that scores the results and leaves them in their order
FallbackOriginalOrder(results) == [i \in DOMAIN results |-> FallbackScored(results[i])]

FallbackRecencySort(results) ==
    SortedDesc([i \in DOMAIN results |-> FallbackScored(results[i])], "final_score")

\* a success path that leaves the documents in the order of the response
RerankSuccessServiceOrder(entries, results, top_k) ==
    Slice(CalculateHybridScores(
              ProcessRerankResponse(entries, results, PrepareDocuments(results))),
          top_k)

\* lines 642-648: what rerank returns when the service answered
RerankSuccess(entries, results, top_k) ==
    LET metadata_map == PrepareDocuments(results)
        cohere_results == ProcessRerankResponse(entries, results, metadata_map)
        scored_results == CalculateHybridScores(cohere_results)
    IN Slice(SortedDesc(scored_results, "final_score"), top_k)

\* a fallback without the cut of line 679
RerankFallbackUncut(results, top_k) == FallbackRecencySort(results)

\* lines 677-679: what rerank returns when the service failed
RerankFallback(results, top_k) == Slice(FallbackRecencySort(results), top_k)

\* _call_cohere_api, line 262
TopN(top_k, documents) == Min(top_k, Len(documents))

\* ---------------------------------------------------------- hybrid scorer
Tier1 == {"coindesk", "cointelegraph", "the block", "decrypt", "bloomberg", "reuters"}
Tier2 == {"panewslab", "cryptonews", "wu blockchain", "blockworks", "coindesk"}
Tier3 == {"odaily", "beincrypto", "cryptoslate", "ambcrypto"}
Social == {"twitter", "telegram", "discord", "reddit"}

\* SourceCredibilityAnalyzer.get_source_tier: base_score of the first tier
\* that lists the source (the names of the corpus hold no other outlet's)
SourceBaseScore(source) ==
    CASE source \in Tier1 -> 900
      [] source \in Tier2 -> 700
      [] source \in Tier3 -> 500
      [] source \in Social -> 300
      [] OTHER -> 100

ChannelBonus(channel_type) ==
    CASE channel_type = "news" -> 150
      [] channel_type = "official" -> 200
      [] channel_type = "twitter" -> 50
      [] channel_type = "telegram" -> 20
      [] channel_type = "rss" -> 100
      [] OTHER -> 0

\* _calculate_importance_score raises: .lower() of a value that is None
ImportanceRaises(result) ==
    \/ result.text = NullLen
    \/ result.source = Null
    \/ result.channel_type = Null

\* the sum of the parts without the final min(importance_score, 1.0)
ImportanceScoreUnclamped(result) ==
    300 + (SourceBaseScore(result.source) * 4) \div 10
    + Min(result.keywords[1] * 80, 80 * 3)
    + Min(result.keywords[2] * 50, 50 * 3)
    + Min(result.keywords[3] * 30, 30 * 3)
    + ChannelBonus(result.channel_type)
    + (IF result.text > 500 THEN 50
       ELSE IF result.text < 100 THEN 0 - 50 ELSE 0)
    + (IF result.url # Null /\ result.url # "" THEN 30 ELSE 0)

ImportanceScore(result) ==
    LET importance_score ==
            300 + (SourceBaseScore(result.source) * 4) \div 10
            + Min(result.keywords[1] * 80, 80 * 3)
            + Min(result.keywords[2] * 50, 50 * 3)
            + Min(result.keywords[3] * 30, 30 * 3)
            + ChannelBonus(result.channel_type)
            + (IF result.text > 500 THEN 50
               ELSE IF result.text < 100 THEN 0 - 50 ELSE 0)
            + (IF result.url # Null /\ result.url # "" THEN 30 ELSE 0)
    IN Min(importance_score, 1000)

\* datetime.fromisoformat accepts the value
AgentParses(pub) == pub.kind \in {"iso", "space"}

\* HyperLiquidAgent._calculate_recency_score: <<recency_score, days_ago>>
AgentRecencyScore(pub) ==
    IF ~AgentParses(pub) THEN <<100, UnknownDays>>
    ELSE << CASE pub.days <= 1 -> 1000
              [] pub.days <= 7 -> 900
              [] pub.days <= 30 -> 700
              [] pub.days <= 90 -> 400
              [] pub.days <= 365 -> 200
              [] OTHER -> 100,
            pub.days >>

\* the default scoring_weights of agent.py 408-412, in tenths
WeightRelevance == 5
WeightRecency == 3
WeightImportance == 2

\* an enhancement that weighs the reranker's final_score where the code
\* weighs the relevance score
EnhanceResultFromFinal(result) ==
    LET rec == AgentRecencyScore(result.published_at)
    IN [result EXCEPT !.cohere_score = GetScore(result, "cohere_score"),
                      !.recency_score = rec[1],
                      !.importance_score = ImportanceScore(result),
                      !.hybrid_score = WeightRelevance * (GetScore(result, "final_score") \div 10)
                                       + WeightRecency * rec[1]
                                       + WeightImportance * ImportanceScore(result),
                      !.days_ago = rec[2]]

\* _enhance_result_with_scores
EnhanceResult(result) ==
    LET rec == AgentRecencyScore(result.published_at)
        importance_score == ImportanceScore(result)
        cohere_score == GetScore(result, "cohere_score")
        hybrid_score == WeightRelevance * cohere_score
                        + WeightRecency * rec[1]
                        + WeightImportance * importance_score
    IN [result EXCEPT !.cohere_score = cohere_score,
                      !.recency_score = rec[1],
                      !.importance_score = importance_score,
                      !.hybrid_score = hybrid_score,
                      !.days_ago = rec[2]]

\* a formatting that ranks the lowest hybrid score first
FormatResultsAscending(results) ==
    LET ranked == SortedDesc([i \in DOMAIN results |-> EnhanceResult(results[i])],
                            "hybrid_score")
    IN IF results = <<>> THEN [kind |-> "no_mentions", docs |-> <<>>]
       ELSE IF \E i \in DOMAIN results : ImportanceRaises(results[i])
            THEN [kind |-> "format_error", docs |-> <<>>]
            ELSE [kind |-> "ranked",
                  docs |-> [i \in DOMAIN ranked |-> ranked[Len(ranked) + 1 - i]]]

\* _format_results_with_analysis: the kind of text returned and the ranked
\* documents the text is generated from
FormatResults(results) ==
    IF results = <<>> THEN [kind |-> "no_mentions", docs |-> <<>>]
    ELSE IF \E i \in DOMAIN results : ImportanceRaises(results[i])
         THEN [kind |-> "format_error", docs |-> <<>>]
         ELSE [kind |-> "ranked",
               docs |-> SortedDesc([i \in DOMAIN results |-> EnhanceResult(results[i])],
                                   "hybrid_score")]

\* ------------------------------------------------------- external calls
RECURSIVE SeqsUpTo(_, _)
SeqsUpTo(S, n) ==
    IF n = 0 THEN {<<>>}
    ELSE LET shorter == SeqsUpTo(S, n - 1)
         IN shorter \cup {Append(s, x) : s \in {t \in shorter : Len(t) = n - 1}, x \in S}

IsInjective(s) == \A i, j \in DOMAIN s : i # j => s[i] # s[j]

\* what one namespace.query can answer from the rows stored: at most top_k
\* rows, no row twice
RowListsOf(rows, k) == {s \in SeqsUpTo(rows, Min(k, MaxHits)) : IsInjective(s)}

RowLists(k) == RowListsOf(Corpus, k)

(* One VectorStore.search round trip, as the two services decide it:       *)
(* the embedding call fails or not (on failure _generate_embeddings        *)
(* substitutes a zero vector and the query goes on, lines 165-168), the    *)
(* index query raises or answers rows.                                     *)
(*   status "ok"            both calls succeed                              *)
(*   status "embed_failed"  the embedding call fails, the query answers     *)
(*   status "query_failed"  the index query raises                          *)
OutcomesOf(rows, k) ==
    {[status |-> st, rows |-> r] : st \in {"ok", "embed_failed"}, r \in RowListsOf(rows, k)}
    \cup {[status |-> "query_failed", rows |-> <<>>]}

Outcomes(k) == OutcomesOf(Corpus, k)

\* VectorStore.search: the converted rows, or [] from the except of line 93
VectorStoreSearch(o) == IF o.status = "query_failed" THEN <<>> ELSE o.rows

\* what the rerank service can do with n submitted documents: fail with a
\* CohereAPIError, fail with any other exception, or answer entries whose
\* index may be out of the submitted range and whose score may not parse
ScoreValues == {BadScore, 50, relevance_threshold, 500, 900}

Responses(n) == SeqsUpTo([index : 0 .. n, relevance_score : ScoreValues], MaxResp)

ServiceOutcomes(n) ==
    {[kind |-> "api_error", entries |-> <<>>], [kind |-> "other_error", entries |-> <<>>]}
    \cup {[kind |-> "ok", entries |-> r] : r \in Responses(n)}

\* ----------------------------------------------------------------- state
VARIABLES
    pc,               \* where the running call stands
    caller,           \* "search", "rerank" or "dedupe": the operation called
    query, top_k,     \* arguments of search_mentions
    namespace,        \* the rows the vector index holds during the call
    requests,         \* the top_k of every VectorStore.search call, in order
    bodyRuns,         \* runs of the body of search_mentions under retry_on_failure
    base_results, related_queries, all_results, vi,
    unique_results,
    retrievals,       \* VectorStore.search round trips made by this call
    base_status,      \* how the round trip of the original query went
    trips,            \* the round trips of the fan-out in order, each with
                      \* how it went and the rows the index answered
    steps,            \* the steps of the pipeline this call has taken, in order
    rr_query, rr_results, rr_top_k,   \* arguments of rerank
    attempt,          \* the loop variable of rerank's retry loop
    waits,            \* the time.sleep calls of rerank, in order
    serviceCalls,     \* the client.rerank invocations, in order
    response,         \* response.results of the last client.rerank that answered
    rr_out,           \* what rerank returned
    metrics,          \* MetricsCollector.metrics
    metrics_history,  \* AdvancedCohereReranker.metrics_history
    result,           \* what search_mentions returned
    dd_in, dd_once, dd_twice,  \* a direct _deduplicate_results call and its repeat
    fn_in, fn_out,    \* arguments and return values of the direct calls of a scorer
    tpc,              \* concurrent calls on one agent: where each call stands
    tkind,            \* what each concurrent call is
    tslice,           \* the list self.metrics_history[-1000:] a call has built
    accessed          \* per shared attribute, the calls that read or wrote it

searchVars == <<query, top_k, namespace, requests, bodyRuns, base_results, related_queries, all_results,
                vi, unique_results, retrievals, base_status, trips, steps, metrics, result>>
rerankVars == <<rr_query, rr_results, rr_top_k, attempt, waits, serviceCalls, response,
                rr_out,
                metrics_history>>
ddVars == <<dd_in, dd_once, dd_twice>>
fnVars == <<fn_in, fn_out>>
callVars == <<tpc, tkind, tslice, accessed>>
vars == <<pc, caller, searchVars, rerankVars, ddVars, fnVars, callVars>>

NoResult == [kind |-> "none", docs |-> <<>>, cause |-> "none"]

\* the concurrent calls of the second specification
NCalls == 2
Calls == 1 .. NCalls
SharedNames == {"metrics", "metrics_history"}

\* no call runs; everything but the two metrics lists
InitQuiet ==
    /\ pc = "idle"
    /\ caller = "none"
    /\ query = <<>>
    /\ top_k = 0
    /\ namespace = {}
    /\ requests = <<>>
    /\ bodyRuns = 0
    /\ base_results = <<>>
    /\ related_queries = <<>>
    /\ all_results = <<>>
    /\ vi = 0
    /\ unique_results = <<>>
    /\ retrievals = 0
    /\ base_status = "none"
    /\ trips = <<>>
    /\ steps = <<>>
    /\ rr_query = <<>>
    /\ rr_results = <<>>
    /\ rr_top_k = 0
    /\ attempt = 0
    /\ waits = <<>>
    /\ serviceCalls = <<>>
    /\ response = <<>>
    /\ rr_out = [kind |-> "pending", docs |-> <<>>]
    /\ result = NoResult
    /\ dd_in = <<>>
    /\ dd_once = <<>>
    /\ dd_twice = <<>>
    /\ fn_in = <<>>
    /\ fn_out = <<>>
    /\ tpc = [c \in Calls |-> "ready"]
    /\ tkind = [c \in Calls |-> "none"]
    /\ tslice = [c \in Calls |-> <<>>]
    /\ accessed = [v \in SharedNames |-> {}]

\* after construction: MetricsCollector.__init__ (agent.py 38-39) and
\* AdvancedCohereReranker.__init__ (reranker.py 36)
Init ==
    /\ InitQuiet
    /\ metrics = <<>>
    /\ metrics_history = <<>>

\* ------------------------------------------------------- search_mentions
\* the queries and top_k values a caller passes
Queries ==
    { <<>>, <<Blank>>,
      <<"hyperliquid">>,
      <<"news">>,
      <<"hyperliquid", "vault">> }

\* queries with more variants, run against a namespace that holds no row
WideQueries ==
    { <<"price">>, <<"Price">>, <<"vault", "price", "volume">> }

SearchInputs ==
    {[query |-> q, namespace |-> Corpus] : q \in Queries}
    \cup {[query |-> q, namespace |-> {}] : q \in WideQueries}
    \cup {[query |-> <<"hyperliquid">>, namespace |-> Twins]}

TopKs == {0 - 1, 0, 1, TopKLimit, TopKLimit + 1}

\* a range check that lets top_k = 51 through
IsValidRequestOffByOne(q, k) == ~IsEmptyQuery(q) /\ ~(k <= 0 \/ k > TopKLimit + 1)

\* the checks of lines 189-193
IsValidRequest(q, k) == ~IsEmptyQuery(q) /\ ~(k <= 0 \/ k > TopKLimit)

\* a body whose except block re-raises the validation error
ErrorPropagatesValidation(cause) == cause = "validation"

\* the except block of lines 233-248 ends in a return for every exception:
\* nothing leaves the body
ErrorPropagates(cause) == FALSE

\* MetricsCollector.add_metric
AddMetric(ms, metric) == Append(ms, metric)

SearchMentions ==
    /\ pc = "idle"
    /\ \E i \in SearchInputs, k \in TopKs :
        /\ query' = i.query
        /\ namespace' = i.namespace
        /\ top_k' = k
    /\ caller' = "search"
    /\ pc' = "body"
    /\ UNCHANGED <<requests, bodyRuns, base_results, related_queries, all_results, vi,
                   unique_results, retrievals, base_status, trips, steps, metrics,
                   result, rerankVars, ddVars, fnVars, callVars>>

\* one run of the body up to the first retrieval: lines 183-193, and on a
\* validation error lines 233-248 and the wrapper of lines 69-79
Validate ==
    /\ pc = "body"
    /\ bodyRuns' = bodyRuns + 1
    /\ IF IsValidRequest(query, top_k)
       THEN /\ pc' = "base"
            /\ UNCHANGED <<metrics, result>>
       ELSE /\ metrics' = AddMetric(metrics, [results_count |-> 0, error |-> "validation"])
            /\ IF ~ErrorPropagates("validation")
               THEN /\ result' = [kind |-> "error", docs |-> <<>>, cause |-> "validation"]
                    /\ pc' = "done"
               ELSE IF bodyRuns + 1 < SearchRetries
                    THEN /\ pc' = "body"
                         /\ UNCHANGED result
                    ELSE /\ result' = [kind |-> "raised", docs |-> <<>>,
                                       cause |-> "validation"]
                         /\ pc' = "done"
    /\ UNCHANGED <<caller, query, top_k, namespace, requests, base_results,
                   related_queries, all_results, vi, unique_results, retrievals,
                   base_status, trips, steps, rerankVars, ddVars, fnVars, callVars>>

\* line 196: the round trip of the original query
BaseSearch ==
    /\ pc = "base"
    /\ \E o \in OutcomesOf(namespace, top_k) :
        /\ base_status' = o.status
        /\ trips' = Append(trips, o)
        /\ base_results' = VectorStoreSearch(o)
    /\ retrievals' = retrievals + 1
    /\ requests' = Append(requests, top_k)
    /\ steps' = Append(steps, "retrieve")
    /\ pc' = "expand"
    /\ UNCHANGED <<caller, query, top_k, namespace, bodyRuns, related_queries,
                   all_results, vi, unique_results, metrics, result,
                   rerankVars, ddVars, fnVars, callVars>>

\* lines 200-201: the variants of the query, and the copy they extend
ExpandQuery ==
    /\ pc = "expand"
    /\ related_queries' = GenerateRelatedQueries(query)
    /\ all_results' = base_results
    /\ vi' = 1
    /\ steps' = Append(steps, "expand")
    /\ pc' = "related"
    /\ UNCHANGED <<caller, query, top_k, namespace, requests, bodyRuns, base_results,
                   unique_results, retrievals, base_status, trips, metrics, result,
                   rerankVars, ddVars, fnVars, callVars>>

\* an assignment where the code extends
MergeRelatedAssign(merged, hits) == hits

\* lines 205-206: all_results.extend(related_results)
MergeRelated(merged, hits) == merged \o hits

\* one pass of the loop of lines 203-210
RelatedSearch ==
    /\ pc = "related"
    /\ vi <= Len(related_queries)
    /\ \E o \in OutcomesOf(namespace, VariantTopK) :
        /\ trips' = Append(trips, o)
        /\ all_results' = MergeRelated(all_results, VectorStoreSearch(o))
    /\ retrievals' = retrievals + 1
    /\ requests' = Append(requests, VariantTopK)
    /\ vi' = vi + 1
    /\ steps' = Append(steps, "retrieve")
    /\ UNCHANGED <<pc, caller, query, top_k, namespace, bodyRuns, base_results, related_queries,
                   unique_results, base_status, metrics, result, rerankVars, ddVars, fnVars, callVars>>

(* Lines 213-214: deduplicate, then call rerank with the original query.   *)
(* base_results and all_results are not read after line 213; the model     *)
(* forgets them here, and the record of the fan-out's round trips with     *)
(* them, so that what follows does not depend on them.                     *)
Deduplicate ==
    /\ pc = "related"
    /\ vi > Len(related_queries)
    /\ unique_results' = DeduplicateResults(all_results)
    /\ rr_query' = query
    /\ rr_results' = DeduplicateResults(all_results)
    /\ rr_top_k' = top_k
    /\ base_results' = <<>>
    /\ all_results' = <<>>
    /\ trips' = <<>>
    /\ steps' = steps \o <<"dedup", "rerank">>
    /\ pc' = "rerank"
    /\ UNCHANGED <<caller, query, top_k, namespace, requests, bodyRuns, related_queries,
                   vi, retrievals, base_status, metrics, result,
                   attempt, waits, serviceCalls, response, rr_out, metrics_history,
                   ddVars, fnVars, callVars>>

\* ---------------------------------------------------------------- rerank
\* a direct call of the reranker's public method
RerankQueries == { <<>>, <<Blank>>, <<"news">> }
RerankTopKs == {0 - 1, 0, 1, 2}

\* result lists with the undated row, for direct calls
UndatedLists == { <<RowUndated, RowNew>>, <<RowOld, RowUndated>> }

\* result lists that begin with a row too short to submit
ShortLists == { <<RowShort, RowBrief>>, <<RowShort, RowNew>> }

RerankCall ==
    /\ pc = "idle"
    /\ \E q \in RerankQueries,
          rs \in RowLists(MaxHits) \cup UndatedLists \cup ShortLists,
          k \in RerankTopKs :
        /\ rr_query' = q
        /\ rr_results' = rs
        /\ rr_top_k' = k
    /\ caller' = "rerank"
    /\ pc' = "rerank"
    /\ UNCHANGED <<searchVars, attempt, waits, serviceCalls, response, rr_out,
                   metrics_history, ddVars, fnVars, callVars>>

\* where the end of rerank leads: back into search_mentions, or to the end
\* of a direct call
AfterRerank == IF caller = "search" THEN "format" ELSE "done"

\* response is a local of rerank (line 640): what is left of it to look at
\* once rerank has returned, after a direct call and inside search_mentions
Inspectable(entries) == IF caller = "search" THEN <<>> ELSE entries

Returned(docs) == [kind |-> "returned", docs |-> docs]
Raised == [kind |-> "raised", docs |-> <<>>]

\* a loop without the except Exception clause of line 665
IsCaughtApiOnly(kind) == kind = "api_error"

\* a loop that goes on after every exception
IsRetryableAny(kind) == TRUE

\* the except clauses of lines 657 and 665 catch whatever a pass of the
\* loop raises: CohereAPIError, and Exception for everything else
IsCaught(kind) == TRUE

\* line 657 against line 665: only a CohereAPIError lets the loop go on
IsRetryable(kind) == kind = "api_error"

\* _store_metrics, lines 366-370
HistoryCap == 1000

StoreMetrics(history, m) ==
    LET appended == Append(history, m)
    IN IF Len(appended) > HistoryCap
       THEN SubSeq(appended, Len(appended) - HistoryCap + 1, Len(appended))
       ELSE appended

\* lines 613-625: the two early returns, or the start of the retry loop
RerankEnter ==
    /\ pc = "rerank"
    /\ IF rr_results = <<>>
       THEN /\ rr_out' = Returned(<<>>)
            /\ pc' = AfterRerank
            /\ UNCHANGED attempt
       ELSE IF IsEmptyQuery(rr_query)
            THEN /\ rr_out' = Returned(Slice(rr_results, rr_top_k))
                 /\ pc' = AfterRerank
                 /\ UNCHANGED attempt
            ELSE /\ attempt' = 0
                 /\ pc' = "attempt"
                 /\ UNCHANGED rr_out
    /\ UNCHANGED <<caller, searchVars, rr_query, rr_results, rr_top_k, waits,
                   serviceCalls, response, metrics_history, ddVars, fnVars, callVars>>

\* lines 632-636: nothing to submit
RerankNoDocuments ==
    /\ pc = "attempt"
    /\ PrepareDocuments(rr_results) = <<>>
    /\ rr_out' = Returned(Slice(rr_results, rr_top_k))
    /\ pc' = AfterRerank
    /\ UNCHANGED <<caller, searchVars, rr_query, rr_results, rr_top_k, attempt, waits,
                   serviceCalls, response, metrics_history, ddVars, fnVars, callVars>>

\* a sleep without the guard of line 661
BackoffWaitsAlways(a) == <<retry_delay * (2 ^ a)>>

\* lines 661-664: the sleep that follows a CohereAPIError of this attempt
BackoffWaits(a) == IF a < max_retries - 1 THEN <<retry_delay * (2 ^ a)>> ELSE <<>>

\* the loop of line 627 goes on after a CohereAPIError of attempt a
HasNextAttempt(a) == a + 1 < max_retries

\* one pass of the loop of lines 627-668, and what follows the loop
RerankAttempt ==
    /\ pc = "attempt"
    /\ PrepareDocuments(rr_results) # <<>>
    /\ \E o \in ServiceOutcomes(Len(PrepareDocuments(rr_results))) :
        /\ serviceCalls' = Append(serviceCalls,
               [attempt |-> attempt,
                top_n |-> TopN(rr_top_k, PrepareDocuments(rr_results)),
                outcome |-> o.kind])
        /\ response' = IF o.kind = "ok" THEN Inspectable(o.entries) ELSE response
        /\ CASE o.kind = "ok" ->
                  /\ rr_out' = Returned(RerankSuccess(o.entries, rr_results, rr_top_k))
                  /\ metrics_history' = StoreMetrics(metrics_history,
                         [success |-> TRUE,
                          reranked_count |-> Len(rr_out'.docs)])
                  /\ pc' = AfterRerank
                  /\ UNCHANGED <<attempt, waits>>
             [] o.kind # "ok" /\ ~IsCaught(o.kind) ->
                  /\ rr_out' = Raised
                  /\ pc' = AfterRerank
                  /\ UNCHANGED <<attempt, waits, metrics_history>>
             [] o.kind # "ok" /\ IsCaught(o.kind) /\ IsRetryable(o.kind)
                    /\ HasNextAttempt(attempt) ->
                  /\ waits' = waits \o BackoffWaits(attempt)
                  /\ attempt' = attempt + 1
                  /\ UNCHANGED <<pc, rr_out, metrics_history>>
             [] OTHER ->
                  /\ waits' = IF IsRetryable(o.kind)
                              THEN waits \o BackoffWaits(attempt) ELSE waits
                  /\ metrics_history' = StoreMetrics(metrics_history,
                         [success |-> FALSE, reranked_count |-> 0])
                  /\ rr_out' = Returned(RerankFallback(rr_results, rr_top_k))
                  /\ pc' = AfterRerank
                  /\ UNCHANGED attempt
    /\ UNCHANGED <<caller, searchVars, rr_query, rr_results, rr_top_k, ddVars, fnVars, callVars>>

\* ------------------------------------------------- back in search_mentions
\* lines 214-231 once rerank has returned; lines 233-248 had it raised
Format ==
    /\ pc = "format"
    /\ IF rr_out.kind = "returned"
       THEN /\ metrics' = AddMetric(metrics,
                   [results_count |-> Len(rr_out.docs), error |-> "none"])
            /\ result' = [kind |-> FormatResults(rr_out.docs).kind,
                          docs |-> FormatResults(rr_out.docs).docs,
                          cause |-> "none"]
       ELSE /\ metrics' = AddMetric(metrics, [results_count |-> 0, error |-> "rerank"])
            /\ result' = [kind |-> "error", docs |-> <<>>, cause |-> "rerank"]
    /\ steps' = IF rr_out.kind = "returned" /\ rr_out.docs # <<>>
                THEN Append(steps, "score") ELSE steps
    /\ pc' = "done"
    /\ UNCHANGED <<caller, query, top_k, namespace, requests, bodyRuns, base_results,
                   related_queries, all_results, vi, unique_results, retrievals,
                   base_status, trips, rerankVars, ddVars, fnVars, callVars>>

\* --------------------------------------- direct _deduplicate_results calls
HitIds == 1 .. 2
HitUrls == {"", "http://a", "http://b"}
Hit(id, url) == Row(id, url, 20, 50, <<0, 0, 0>>, "coindesk", "news", "iso", 0)
Hits == {Hit(i, u) : i \in HitIds, u \in HitUrls}

DedupeCall ==
    /\ pc = "idle"
    /\ \E X \in SeqsUpTo(Hits, MaxLen) :
        /\ dd_in' = X
        /\ dd_once' = DeduplicateResults(X)
    /\ caller' = "dedupe"
    /\ pc' = "deduped"
    /\ UNCHANGED <<searchVars, rerankVars, dd_twice, fnVars, callVars>>

DedupeAgain ==
    /\ pc = "deduped"
    /\ caller = "dedupe"
    /\ dd_twice' = DeduplicateResults(dd_once)
    /\ pc' = "done"
    /\ UNCHANGED <<caller, searchVars, rerankVars, dd_in, dd_once, fnVars, callVars>>

\* ------------------------------------------------- direct scorer calls
\* keyword matches per category looked at
MaxMatches == 4

SourceNames == {"coindesk", "cryptonews", "odaily", "telegram", "someblog"}
ChannelTypes == {"news", "official", "twitter", "telegram", "rss", "forum"}
TextLengths == {50, 200, 600}

\* _calculate_importance_score on one document
ImportanceCall ==
    /\ pc = "idle"
    /\ \E source \in SourceNames, channel \in ChannelTypes, text \in TextLengths,
          url \in {"", "http://a"},
          keywords \in [1 .. 3 -> 0 .. MaxMatches] :
        /\ fn_in' = <<Row(1, url, 20, text, keywords, source, channel, "iso", 0)>>
        /\ fn_out' = <<ImportanceScore(
                          Row(1, url, 20, text, keywords, source, channel, "iso", 0))>>
    /\ caller' = "importance"
    /\ pc' = "done"
    /\ UNCHANGED <<searchVars, rerankVars, ddVars, callVars>>

\* the values of published_at the scorers are called with: dates on both
\* sides of every bucket limit and in the future, in the two date formats,
\* a string that is no date, and None
DayValues == {0 - 400, 0 - 1, 0, 1, 2, 7, 8, 30, 31, 90, 91, 365, 366, 400}
PublishedAts ==
    {[kind |-> k, days |-> d] : k \in {"iso", "space"}, d \in DayValues}
    \cup {[kind |-> "garbage", days |-> 0], [kind |-> "none", days |-> 0]}

\* HyperLiquidAgent._calculate_recency_score, called once and once more
AgentRecencyCall ==
    /\ pc = "idle"
    /\ \E p \in PublishedAts :
        /\ fn_in' = <<p>>
        /\ fn_out' = <<AgentRecencyScore(p)>>
    /\ caller' = "agent_recency"
    /\ pc' = "scored"
    /\ UNCHANGED <<searchVars, rerankVars, ddVars, callVars>>

AgentRecencyAgain ==
    /\ pc = "scored"
    /\ caller = "agent_recency"
    /\ \E p \in PublishedAts :
        /\ fn_in' = Append(fn_in, p)
        /\ fn_out' = Append(fn_out, AgentRecencyScore(p))
    /\ pc' = "done"
    /\ UNCHANGED <<caller, searchVars, rerankVars, ddVars, callVars>>

\* AdvancedCohereReranker._calculate_recency_score and _extract_days_ago,
\* called once and once more
RerankerRecencyCall ==
    /\ pc = "idle"
    /\ \E p \in PublishedAts :
        /\ fn_in' = <<p>>
        /\ fn_out' = << <<RerankerRecencyScore(p), ExtractDaysAgo(p)>> >>
    /\ caller' = "reranker_recency"
    /\ pc' = "scored"
    /\ UNCHANGED <<searchVars, rerankVars, ddVars, callVars>>

RerankerRecencyAgain ==
    /\ pc = "scored"
    /\ caller = "reranker_recency"
    /\ \E p \in PublishedAts :
        /\ fn_in' = Append(fn_in, p)
        /\ fn_out' = Append(fn_out, <<RerankerRecencyScore(p), ExtractDaysAgo(p)>>)
    /\ pc' = "done"
    /\ UNCHANGED <<caller, searchVars, rerankVars, ddVars, callVars>>

\* --------------------------------------- direct _generate_embeddings calls
\* vector_store.py 152
batch_size == 100
\* full batches of the longest text list
MaxBatches == 2

\* a text is its number; the provider's vector of a text, and the fallback
\* [0.0] * 1536 of line 168
Embedding(text) == <<"vector", text>>
ZeroVector == <<"zero">>

\* how many texts a call is given: none, one, and a full batch with and
\* without one more
TextCounts == {0, 1} \cup {b * batch_size + r : b \in 1 .. MaxBatches, r \in {0, 1}}

BatchesOf(n) == (n + batch_size - 1) \div batch_size

\* a call that adds nothing for a batch the provider failed on
RECURSIVE EmbedSkippingFrom(_, _, _, _)
EmbedSkippingFrom(embeddings, texts, i, failed) ==
    IF i >= Len(texts) THEN embeddings
    ELSE LET batch == SubSeq(texts, i + 1, Min(i + batch_size, Len(texts)))
         IN EmbedSkippingFrom(
                IF (i \div batch_size) + 1 \in failed
                THEN embeddings
                ELSE embeddings \o [j \in DOMAIN batch |-> Embedding(batch[j])],
                texts, i + batch_size, failed)

GenerateEmbeddingsSkipping(texts, failed) == EmbedSkippingFrom(<<>>, texts, 0, failed)

\* the loop of lines 154-168 from index i on; failed: the numbers (from 1)
\* of the batches whose embeddings.create call raises
RECURSIVE EmbedFrom(_, _, _, _)
EmbedFrom(embeddings, texts, i, failed) ==
    IF i >= Len(texts) THEN embeddings
    ELSE LET batch == SubSeq(texts, i + 1, Min(i + batch_size, Len(texts)))
         IN EmbedFrom(
                embeddings \o (IF (i \div batch_size) + 1 \in failed
                               THEN [j \in DOMAIN batch |-> ZeroVector]
                               ELSE [j \in DOMAIN batch |-> Embedding(batch[j])]),
                texts, i + batch_size, failed)

\* _generate_embeddings
GenerateEmbeddings(texts, failed) == EmbedFrom(<<>>, texts, 0, failed)

EmbeddingsCall ==
    /\ pc = "idle"
    /\ \E n \in TextCounts : \E failed \in SUBSET (1 .. BatchesOf(n)) :
        /\ fn_in' = [texts |-> [t \in 1 .. n |-> t], failed |-> failed]
        /\ fn_out' = GenerateEmbeddings([t \in 1 .. n |-> t], failed)
    /\ caller' = "embeddings"
    /\ pc' = "done"
    /\ UNCHANGED <<searchVars, rerankVars, ddVars, callVars>>

\* ------------------------------------------------------------------ spec
Next ==
    \/ SearchMentions
    \/ Validate
    \/ BaseSearch
    \/ ExpandQuery
    \/ RelatedSearch
    \/ Deduplicate
    \/ RerankCall
    \/ RerankEnter
    \/ RerankNoDocuments
    \/ RerankAttempt
    \/ Format
    \/ DedupeCall
    \/ DedupeAgain
    \/ ImportanceCall
    \/ AgentRecencyCall
    \/ AgentRecencyAgain
    \/ RerankerRecencyCall
    \/ RerankerRecencyAgain
    \/ EmbeddingsCall

Spec == Init /\ [][Next]_vars

\* ------------------------------------- concurrent calls on one agent object
(* One HyperLiquidAgent, with its MetricsCollector and its reranker, serves *)
(* NCalls calls that run in threads of one interpreter.  Of a call only the *)
(* steps that touch an attribute of the shared objects are kept; what lies  *)
(* between them works on locals of the call.  A step is what the            *)
(* interpreter does without switching threads: list.append, len(), the      *)
(* slice that builds a new list, the assignment of the attribute.           *)
(* An entry of a metrics list is the number of the call that stored it; the *)
(* entries of the n calls served before are 1 - n .. 0, oldest first.       *)
(*   kind "search"           search_mentions whose rerank stores metrics    *)
(*   kind "search_unranked"  search_mentions that ends without a             *)
(*                           _store_metrics: validation error, no hit, no   *)
(*                           document to submit                             *)
(*   kind "rerank"           a direct rerank call that stores metrics       *)
CallKinds == {"search", "search_unranked", "rerank"}

\* how many calls each list has seen before
PriorLengths == {0, HistoryCap - 1, HistoryCap}
Prior(n) == [i \in 1 .. n |-> i - n]

\* Python's s[-n:]
LastN(s, n) == IF Len(s) <= n THEN s ELSE SubSeq(s, Len(s) - n + 1, Len(s))

InitCalls ==
    /\ InitQuiet
    /\ \E n \in PriorLengths : metrics = Prior(n)
    /\ \E n \in PriorLengths : metrics_history = Prior(n)

Touch(name, c) == [accessed EXCEPT ![name] = @ \cup {c}]

\* where a call goes once _store_metrics has returned
AfterStore(c) == IF tkind[c] = "search" THEN "metric" ELSE "finished"

CallStart(c) ==
    /\ tpc[c] = "ready"
    /\ \E k \in CallKinds :
        /\ tkind' = [tkind EXCEPT ![c] = k]
        /\ tpc' = [tpc EXCEPT ![c] = IF k = "search_unranked" THEN "metric" ELSE "store"]
    /\ UNCHANGED <<pc, caller, searchVars, rerankVars, ddVars, fnVars, tslice, accessed>>

\* reranker.py 366: self.metrics_history.append(metrics)
StoreAppend(c) ==
    /\ tpc[c] = "store"
    /\ metrics_history' = Append(metrics_history, c)
    /\ accessed' = Touch("metrics_history", c)
    /\ tpc' = [tpc EXCEPT ![c] = "check"]
    /\ UNCHANGED <<pc, caller, searchVars, rr_query, rr_results, rr_top_k, attempt, waits,
                   serviceCalls, response, rr_out, ddVars, fnVars, tkind, tslice>>

\* reranker.py 369: if len(self.metrics_history) > 1000
StoreCheck(c) ==
    /\ tpc[c] = "check"
    /\ tpc' = [tpc EXCEPT ![c] = IF Len(metrics_history) > HistoryCap
                                 THEN "slice" ELSE AfterStore(c)]
    /\ UNCHANGED <<pc, caller, searchVars, rerankVars, ddVars, fnVars, tkind, tslice,
                   accessed>>

\* reranker.py 370, right-hand side: self.metrics_history[-1000:]
StoreSlice(c) ==
    /\ tpc[c] = "slice"
    /\ tslice' = [tslice EXCEPT ![c] = LastN(metrics_history, HistoryCap)]
    /\ tpc' = [tpc EXCEPT ![c] = "assign"]
    /\ UNCHANGED <<pc, caller, searchVars, rerankVars, ddVars, fnVars, tkind, accessed>>

\* reranker.py 370, the assignment: self.metrics_history = ...
StoreAssign(c) ==
    /\ tpc[c] = "assign"
    /\ metrics_history' = tslice[c]
    /\ tslice' = [tslice EXCEPT ![c] = <<>>]
    /\ tpc' = [tpc EXCEPT ![c] = AfterStore(c)]
    /\ UNCHANGED <<pc, caller, searchVars, rr_query, rr_results, rr_top_k, attempt, waits,
                   serviceCalls, response, rr_out, ddVars, fnVars, tkind, accessed>>

\* agent.py 228 and 246: self.metrics_collector.add_metric(...)
AddMetricStep(c) ==
    /\ tpc[c] = "metric"
    /\ metrics' = AddMetric(metrics, c)
    /\ accessed' = Touch("metrics", c)
    /\ tpc' = [tpc EXCEPT ![c] = "finished"]
    /\ UNCHANGED <<pc, caller, query, top_k, namespace, requests, bodyRuns, base_results,
                   related_queries, all_results, vi, unique_results, retrievals,
                   base_status, trips, steps, result, rerankVars, ddVars, fnVars,
                   tkind, tslice>>

NextCalls ==
    \E c \in Calls :
        \/ CallStart(c)
        \/ StoreAppend(c)
        \/ StoreCheck(c)
        \/ StoreSlice(c)
        \/ StoreAssign(c)
        \/ AddMetricStep(c)

SpecCalls == InitCalls /\ [][NextCalls]_vars

\* ---------------------------------------------------------------- claims
InvalidRequest == IsEmptyQuery(query) \/ top_k \notin 1 .. TopKLimit

HasAllScores(d) ==
    /\ d.cohere_score # NoScore
    /\ d.recency_score # NoScore
    /\ d.importance_score # NoScore
    /\ d.hybrid_score # NoScore

LastOutcome == IF serviceCalls = <<>> THEN "none"
               ELSE serviceCalls[Len(serviceCalls)].outcome

\* every allowed attempt was made and failed with a service error
Exhausted ==
    /\ Len(serviceCalls) = max_retries
    /\ \A i \in DOMAIN serviceCalls : serviceCalls[i].outcome = "api_error"

PosOf(s, id) == CHOOSE i \in DOMAIN s : s[i].id = id

\* docs are the first Len(inputs[:k]) of the inputs in input order, and a
\* reader finds relevance score 0 on each
IsOriginalOrderPassthrough(docs, inputs, k) ==
    /\ Len(docs) = Len(Slice(inputs, k))
    /\ \A i \in DOMAIN docs :
        /\ docs[i].id = inputs[i].id
        /\ GetScore(docs[i], "cohere_score") = 0

\* docs are the inputs ordered by the reranker's recency score, highest
\* first and equal scores in input order, cut like inputs[:k]; each carries
\* that score as recency_score and final_score and no relevance score
IsRecencyFallback(docs, inputs, k) ==
    /\ Len(docs) = Len(Slice(inputs, k))
    /\ \A i \in DOMAIN docs : \E j \in DOMAIN inputs :
        docs[i] = [inputs[j] EXCEPT
                      !.recency_score = RerankerRecencyScore(inputs[j].published_at),
                      !.final_score = RerankerRecencyScore(inputs[j].published_at)]
    /\ \A i \in DOMAIN docs : docs[i].cohere_score = NoScore
    /\ \A i, j \in DOMAIN docs : i < j =>
        \/ docs[i].final_score > docs[j].final_score
        \/ /\ docs[i].final_score = docs[j].final_score
           /\ PosOf(inputs, docs[i].id) < PosOf(inputs, docs[j].id)
    /\ \A j \in DOMAIN inputs :
        (\A i \in DOMAIN docs : docs[i].id # inputs[j].id) =>
            \A i \in DOMAIN docs :
                \/ RerankerRecencyScore(inputs[j].published_at) < docs[i].final_score
                \/ /\ RerankerRecencyScore(inputs[j].published_at) = docs[i].final_score
                   /\ PosOf(inputs, docs[i].id) < j

\* the elements of X that no earlier element equals under Same, in order
FirstSeen(X, Same(_, _)) ==
    LET F == {i \in DOMAIN X : \A j \in 1 .. (i - 1) : ~Same(X[j], X[i])}
    IN [k \in 1 .. Cardinality(F) |->
           X[CHOOSE i \in F : Cardinality({j \in F : j < i}) = k - 1]]

SameId(a, b) == a.id = b.id

SameUrlOrId(a, b) ==
    IF a.url # "" /\ b.url # "" THEN a.url = b.url
    ELSE IF a.url = "" /\ b.url = "" THEN a.id = b.id
    ELSE FALSE

\* the hits of the round trips that did not fail, in the order of the trips
RECURSIVE MergedWithoutFailed(_)
MergedWithoutFailed(ts) ==
    IF ts = <<>> THEN <<>>
    ELSE (IF Head(ts).status = "query_failed" THEN <<>> ELSE Head(ts).rows)
         \o MergedWithoutFailed(Tail(ts))

(* C1: a search_mentions call with an empty or blank query, or a top_k     *)
(* outside 1..50, ends with the validation error after one run of the      *)
(* body, and at no point of it has a retrieval round trip (embedding call  *)
(* and index query), a rerank-service call or a backoff wait been made.    *)
C1_ValidationRejectsBeforeIO ==
    (caller = "search" /\ pc # "idle" /\ InvalidRequest) =>
        /\ retrievals = 0
        /\ serviceCalls = <<>>
        /\ waits = <<>>
        /\ pc \in {"body", "done"}
        /\ pc = "done" =>
            /\ result.kind = "error"
            /\ result.cause = "validation"
            /\ bodyRuns = 1

C1_Witness ==
    /\ caller = "search"
    /\ pc = "done"
    /\ top_k = TopKLimit + 1
    /\ ~IsEmptyQuery(query)
    /\ result.kind = "error"
    /\ bodyRuns = 1

(* C2: a search with a non-empty query and top_k in 1..50 ends with a      *)
(* ranked list of at most top_k documents, each carrying a relevance, a    *)
(* recency, an importance and a hybrid score, whatever the index and the   *)
(* rerank service did.                                                     *)
C2_AtMostTopKAllScores ==
    (caller = "search" /\ pc = "done" /\ ~InvalidRequest) =>
        /\ result.kind \in {"ranked", "no_mentions", "format_error"}
        /\ Len(result.docs) <= top_k
        /\ \A i \in DOMAIN result.docs : HasAllScores(result.docs[i])

C2_Witness ==
    /\ caller = "search"
    /\ pc = "done"
    /\ result.kind = "ranked"
    /\ Len(result.docs) = top_k
    /\ Len(unique_results) > top_k
    /\ LastOutcome = "api_error"

C5_BoundedRetriesWithBackoff ==
    /\ Len(serviceCalls) <= max_retries
    /\ Len(waits) <= max_retries - 1
    /\ \A i \in DOMAIN serviceCalls :
        /\ serviceCalls[i].attempt = i - 1
        /\ i > 1 => /\ serviceCalls[i - 1].outcome = "api_error"
                    /\ Len(waits) >= i - 1
    /\ \A i \in DOMAIN waits :
        /\ waits[i] = retry_delay * (2 ^ (i - 1))
        /\ i <= Len(serviceCalls)
        /\ serviceCalls[i].outcome = "api_error"

C5_Witness ==
    /\ Len(serviceCalls) = max_retries
    /\ waits = <<retry_delay, 2 * retry_delay>>
    /\ LastOutcome = "api_error"
    /\ rr_out.kind = "returned"

C7_BaseFailureIsFatal ==
    (caller = "search" /\ pc = "done"
        /\ base_status \in {"embed_failed", "query_failed"}) =>
        /\ result.kind \in {"error", "raised"}
        /\ result.cause = "retrieval"

C10_DedupIdempotent ==
    (caller = "dedupe" /\ pc = "done") => dd_twice = dd_once

C10_Witness ==
    /\ caller = "dedupe"
    /\ pc = "done"
    /\ Len(dd_once) >= 2
    /\ Len(dd_once) < Len(dd_in)
    /\ dd_twice = dd_once

\* where the search first retrieved the document: its place in the merged,
\* deduplicated list
RetrievalPos(d) == PosOf(unique_results, d.id)

(* C11: the documents of a search's ranked output are in descending order  *)
(* of hybrid_score; of two with equal hybrid_score the one with the higher *)
(* relevance score comes first, and with equal relevance scores too, the   *)
(* one retrieved first.  (Outputs in which the service put one document    *)
(* twice are left aside.)                                                  *)
C11_HybridOrderWithTieBreaks ==
    (caller = "search" /\ pc = "done" /\ result.kind = "ranked"
        /\ \A i, j \in DOMAIN result.docs :
               i # j => result.docs[i].id # result.docs[j].id) =>
        \A i, j \in DOMAIN result.docs : i < j =>
            \/ result.docs[i].hybrid_score > result.docs[j].hybrid_score
            \/ /\ result.docs[i].hybrid_score = result.docs[j].hybrid_score
               /\ result.docs[i].cohere_score > result.docs[j].cohere_score
            \/ /\ result.docs[i].hybrid_score = result.docs[j].hybrid_score
               /\ result.docs[i].cohere_score = result.docs[j].cohere_score
               /\ RetrievalPos(result.docs[i]) < RetrievalPos(result.docs[j])

\* the response is a ranking of n submitted documents: every entry names a
\* submitted document, none twice, every score is a number, and the scores
\* do not increase
IsRanking(entries, n) ==
    /\ \A i \in DOMAIN entries :
        /\ entries[i].index \in 0 .. (n - 1)
        /\ entries[i].relevance_score # BadScore
    /\ \A i, j \in DOMAIN entries : i < j =>
        /\ entries[i].index # entries[j].index
        /\ entries[i].relevance_score >= entries[j].relevance_score

\* the rerank call ended with an answer of the service
Succeeded == LastOutcome = "ok" /\ rr_out.kind = "returned"

(* C12 as stated: when the service answered with a ranking, rerank returns *)
(* the documents in the order of the answer, which is non-increasing       *)
(* relevance score.                                                        *)
C12_SuccessKeepsServiceOrder ==
    (caller = "rerank" /\ pc = "done" /\ Succeeded
        /\ IsRanking(response, Len(PrepareDocuments(rr_results)))) =>
        \A i, j \in DOMAIN rr_out.docs : i < j =>
            /\ rr_out.docs[i].cohere_rank < rr_out.docs[j].cohere_rank
            /\ rr_out.docs[i].cohere_score >= rr_out.docs[j].cohere_score

(* C12 amended: when the service answered, rerank returns the documents in *)
(* descending order of final_score, where final_score is 0.7 * relevance + *)
(* 0.3 * recency, plus 0.1 when the relevance is above 0.8 and plus 0.05   *)
(* when the document is at most 7 days old; documents of equal final_score *)
(* keep the order of the answer.                                           *)
C12_SuccessOrdersByFinalScore ==
    Succeeded =>
        /\ \A i \in DOMAIN rr_out.docs :
            LET d == rr_out.docs[i]
            IN d.final_score = 7 * d.cohere_score + 3 * d.recency_score
                               + (IF d.cohere_score > 800 THEN 1000 ELSE 0)
                               + (IF d.days_ago <= 7 THEN 500 ELSE 0)
        /\ \A i, j \in DOMAIN rr_out.docs : i < j =>
            \/ rr_out.docs[i].final_score > rr_out.docs[j].final_score
            \/ /\ rr_out.docs[i].final_score = rr_out.docs[j].final_score
               /\ rr_out.docs[i].cohere_rank < rr_out.docs[j].cohere_rank

C12_Witness ==
    /\ caller = "rerank"
    /\ pc = "done"
    /\ Succeeded
    /\ IsRanking(response, Len(PrepareDocuments(rr_results)))
    /\ Len(rr_out.docs) = 2
    /\ rr_out.docs[1].cohere_rank = 2
    /\ rr_out.docs[1].cohere_score < rr_out.docs[2].cohere_score

(* C13: whenever rerank has returned, whatever the query, the documents,   *)
(* top_k and the path taken, it has returned at most min(top_k, number of  *)
(* documents) documents (none when that minimum is negative), and every    *)
(* invocation of the service asked for top_n = min(top_k, number of        *)
(* representations submitted).                                             *)
C13_AtMostTopKOnEveryPath ==
    /\ rr_out.kind = "returned" =>
        Len(rr_out.docs) <= Max(Min(rr_top_k, Len(rr_results)), 0)
    /\ \A i \in DOMAIN serviceCalls :
        serviceCalls[i].top_n = Min(rr_top_k, Len(PrepareDocuments(rr_results)))

\* the service answered no more results than the top_n it was asked for
HonoursTopN ==
    Len(response) <= Max(TopN(rr_top_k, PrepareDocuments(rr_results)), 0)

\* entry number r of the response is in the output: a document that carries
\* its score and its rank and is the document submitted under its index
IsInOutput(r) ==
    \E i \in DOMAIN rr_out.docs :
        /\ rr_out.docs[i].cohere_rank = r
        /\ rr_out.docs[i].cohere_score = response[r].relevance_score
        /\ rr_out.docs[i].original_index
               = PrepareDocuments(rr_results)[response[r].index + 1]
        /\ rr_out.docs[i].id
               = rr_results[PrepareDocuments(rr_results)[response[r].index + 1] + 1].id

(* C14: when the service answered, no document rerank returns has a        *)
(* relevance score below the floor relevance_threshold (0.1); and, the     *)
(* service having answered at most the top_n results asked for, every      *)
(* result whose score is a number at or above the floor and whose index    *)
(* names a submitted document is in the output.                            *)
C14_RelevanceFloor ==
    /\ Succeeded =>
        \A i \in DOMAIN rr_out.docs :
            rr_out.docs[i].cohere_score >= relevance_threshold
    /\ (caller = "rerank" /\ pc = "done" /\ Succeeded /\ HonoursTopN) =>
        \A r \in DOMAIN response :
            (/\ response[r].relevance_score # BadScore
             /\ response[r].relevance_score >= relevance_threshold
             /\ response[r].index \in 0 .. (Len(PrepareDocuments(rr_results)) - 1))
            => IsInOutput(r)

C14_Witness ==
    /\ caller = "rerank"
    /\ pc = "done"
    /\ Succeeded
    /\ HonoursTopN
    /\ Len(response) = 2
    /\ response[1].relevance_score = relevance_threshold
    /\ response[2].relevance_score < relevance_threshold
    /\ response[2].relevance_score # BadScore
    /\ response[1].index # response[2].index
    /\ response[2].index < Len(PrepareDocuments(rr_results))
    /\ Len(rr_out.docs) = 1
    /\ rr_out.docs[1].cohere_score = relevance_threshold

(* C15: the variants _generate_related_queries returns for the query of a  *)
(* search are at most 4, pairwise distinct, non-empty, and none of them is *)
(* the original query verbatim.                                            *)
C15_VariantsDistinctNotOriginal ==
    caller = "search" =>
        /\ Len(related_queries) <= 4
        /\ \A i, j \in DOMAIN related_queries :
            i # j => related_queries[i] # related_queries[j]
        /\ \A i \in DOMAIN related_queries :
            /\ ~IsEmptyQuery(related_queries[i])
            /\ related_queries[i] # query

\* the search is past its fan-out
PastFanOut == pc \in {"rerank", "attempt", "format", "done"} /\ ~InvalidRequest

(* C16 as stated: a search makes one retrieval round trip for the original *)
(* query, asking for top_k, and one for each of at most 3 variants, asking *)
(* for a fixed count: at most 4 round trips.                               *)
C16_AtMostThreeVariants ==
    caller = "search" =>
        /\ Len(related_queries) <= 3
        /\ retrievals <= 4
        /\ Len(requests) = retrievals
        /\ \A i \in DOMAIN requests :
            requests[i] = IF i = 1 THEN top_k ELSE VariantTopK
        /\ PastFanOut => retrievals = 1 + Len(related_queries)

(* C16 amended: a search makes one retrieval round trip for the original   *)
(* query, asking for top_k, and one for each of at most 4 variants, asking *)
(* for 5 results each: at most 5 round trips, and none when the request is *)
(* rejected.                                                               *)
C16_AtMostFourVariants ==
    caller = "search" =>
        /\ Len(related_queries) <= MaxExpansions
        /\ retrievals <= 1 + MaxExpansions
        /\ Len(requests) = retrievals
        /\ \A i \in DOMAIN requests :
            requests[i] = IF i = 1 THEN top_k ELSE VariantTopK
        /\ PastFanOut => retrievals = 1 + Len(related_queries)
        /\ InvalidRequest => retrievals = 0

C16_Witness ==
    /\ caller = "search"
    /\ pc = "done"
    /\ top_k = TopKLimit
    /\ retrievals = 1 + MaxExpansions
    /\ requests = <<TopKLimit, VariantTopK, VariantTopK, VariantTopK, VariantTopK>>

(* C17: on every document of a search's ranked output, hybrid_score is     *)
(* 0.5 * the relevance score + 0.3 * the recency score + 0.2 * the         *)
(* importance score the same document carries (the default weights).       *)
C17_HybridIsWeightedSum ==
    (caller = "search" /\ pc = "done") =>
        \A i \in DOMAIN result.docs :
            LET d == result.docs[i]
            IN /\ HasAllScores(d)
               /\ d.hybrid_score = WeightRelevance * d.cohere_score
                                   + WeightRecency * d.recency_score
                                   + WeightImportance * d.importance_score

C17_Witness ==
    /\ caller = "search"
    /\ pc = "done"
    /\ result.kind = "ranked"
    /\ Len(result.docs) = 2
    /\ result.docs[1].cohere_score > 0
    /\ result.docs[1].cohere_score # result.docs[2].cohere_score
    /\ result.docs[1].recency_score # result.docs[2].recency_score
    /\ result.docs[1].importance_score # result.docs[2].importance_score

(* C18: the importance score of a document lies in [0, 1] (0..1000 in      *)
(* thousandths) for every combination of source tier, keyword matches per  *)
(* category, channel type, content length and URL presence.                *)
C18_ImportanceInUnitInterval ==
    /\ (caller = "importance" /\ pc = "done") =>
           /\ fn_out[1] >= 0
           /\ fn_out[1] <= 1000
    /\ (caller = "search" /\ pc = "done") =>
           \A i \in DOMAIN result.docs :
               /\ result.docs[i].importance_score >= 0
               /\ result.docs[i].importance_score <= 1000

\* a premium outlet's long official article with three or more matches in
\* every keyword category and a link: the sum of the parts exceeds 1
C18_Witness ==
    /\ caller = "importance"
    /\ pc = "done"
    /\ fn_in[1].source = "coindesk"
    /\ fn_in[1].channel_type = "official"
    /\ fn_in[1].text > 500
    /\ fn_in[1].url # ""
    /\ \A c \in 1 .. 3 : fn_in[1].keywords[c] >= 3
    /\ fn_out[1] = 1000

\* the published_at the scorer of the running direct call can read as a date
ScorerParses(pub) ==
    IF caller = "agent_recency" THEN AgentParses(pub) ELSE RerankerParses(pub)

\* the recency score of the n-th direct call
ScoreOfCall(n) ==
    fn_out[n][1]

(* C19: both recency scorers are monotonically non-increasing in days_ago: *)
(* of two dates, the one fewer days ago (0 and negative, for dates in the  *)
(* future, included) never scores below the other; every score lies in     *)
(* [0, 1] (0..1000 in thousandths).                                        *)
C19_RecencyMonotone ==
    (caller \in {"agent_recency", "reranker_recency"} /\ pc = "done") =>
        /\ \A n \in DOMAIN fn_out :
               ScoreOfCall(n) >= 0 /\ ScoreOfCall(n) <= 1000
        /\ (ScorerParses(fn_in[1]) /\ ScorerParses(fn_in[2])
              /\ fn_in[1].days < fn_in[2].days) =>
               ScoreOfCall(1) >= ScoreOfCall(2)

\* a date in the future against one of the 31st to 90th day, the bucket the
\* two scorers value differently, under the reranker's scorer
C19_Witness ==
    /\ caller = "reranker_recency"
    /\ pc = "done"
    /\ RerankerParses(fn_in[1])
    /\ RerankerParses(fn_in[2])
    /\ fn_in[1].days < 0
    /\ fn_in[2].days > 30
    /\ fn_in[2].days <= 90
    /\ fn_out[1][1] = 1000
    /\ fn_out[2][1] = 500

\* published_at is None, as search stores it for a row without the
\* attribute (vector_store.py 82), or a string that is no date
Undated(d) == d.published_at.kind \in {"none", "garbage"}

\* the service ranked every document it was given, each at or above the
\* relevance floor, and top_k leaves room for every input document
NothingFilteredOut ==
    /\ Succeeded
    /\ rr_top_k >= Len(rr_results)
    /\ IsRanking(response, Len(PrepareDocuments(rr_results)))
    /\ Len(response) = Len(PrepareDocuments(rr_results))
    /\ \A r \in DOMAIN response : response[r].relevance_score >= relevance_threshold

(* C20: a document whose published_at is missing or unparseable gets the   *)
(* floor recency score 0.1, the value of the oldest bucket, and the other  *)
(* documents are scored as usual: a direct scorer call answers 0.1 and the *)
(* next call is unaffected; a rerank that filters nothing out returns the  *)
(* undated document, carrying the floor score, among the others.           *)
C20_UndatedGetsFloor ==
    /\ (caller \in {"agent_recency", "reranker_recency"} /\ pc = "done") =>
           \A n \in DOMAIN fn_in :
               ~ScorerParses(fn_in[n]) =>
                   fn_out[n][1] = 100
    /\ (caller = "rerank" /\ pc = "done" /\ rr_out.kind = "returned"
          /\ (NothingFilteredOut \/ (Exhausted /\ rr_top_k >= Len(rr_results)))) =>
           \A i \in DOMAIN rr_results :
               (Undated(rr_results[i]) /\ rr_results[i].title # NullLen) =>
                   \E j \in DOMAIN rr_out.docs :
                       /\ rr_out.docs[j].id = rr_results[i].id
                       /\ rr_out.docs[j].recency_score = 100

\* every document of docs carries the same value under key
SameScore(docs, key) == \A i, j \in DOMAIN docs : docs[i][key] = docs[j][key]

\* docs are in non-increasing order of the relevance score a reader finds
ByRelevance(docs) ==
    \A i, j \in DOMAIN docs :
        i < j => GetScore(docs[i], "cohere_score") >= GetScore(docs[j], "cohere_score")

(* C21: when the documents have the same recency score and the same        *)
(* importance score, no document with a higher relevance score comes after *)
(* one with a lower relevance score, in what rerank returns to the search  *)
(* (sorted by final_score) and in the final output (sorted by              *)
(* hybrid_score).                                                          *)
C21_EqualRestKeepsRelevanceOrder ==
    /\ (caller = "search" /\ pc \in {"format", "done"} /\ rr_out.kind = "returned"
          /\ SameScore(rr_out.docs, "recency_score")) =>
           ByRelevance(rr_out.docs)
    /\ (caller = "search" /\ pc = "done" /\ result.kind = "ranked"
          /\ SameScore(result.docs, "recency_score")
          /\ SameScore(result.docs, "importance_score")) =>
           ByRelevance(result.docs)

C21_Witness ==
    /\ caller = "search"
    /\ pc = "done"
    /\ result.kind = "ranked"
    /\ Len(result.docs) = 2
    /\ SameScore(result.docs, "recency_score")
    /\ SameScore(result.docs, "importance_score")
    /\ result.docs[1].id = 5
    /\ result.docs[2].id = 2
    /\ result.docs[1].cohere_score > result.docs[2].cohere_score
    /\ result.docs[2].cohere_score > 0

\* the search's rerank ended in the fallback: the service was called and its
\* last call failed
Degraded == caller = "search" /\ pc = "done" /\ serviceCalls # <<>> /\ LastOutcome # "ok"

\* what is left of hybrid_score without the relevance term
RestScore(d) == WeightRecency * d.recency_score + WeightImportance * d.importance_score

(* C22: after a degraded rerank the search ends normally, with the         *)
(* documents the fallback returned as its ranked output, each with         *)
(* relevance score exactly 0, ordered by weights.recency * recency_score + *)
(* weights.importance * importance_score; after a successful rerank no     *)
(* output document has relevance score 0.                                  *)
C22_DegradedMarkedByZeroRelevance ==
    /\ Degraded =>
           /\ result.kind = "ranked"
           /\ Len(result.docs) = Len(rr_out.docs)
           /\ \A i \in DOMAIN result.docs : result.docs[i].cohere_score = 0
           /\ \A i, j \in DOMAIN result.docs :
                  i < j => RestScore(result.docs[i]) >= RestScore(result.docs[j])
    /\ (caller = "search" /\ pc = "done" /\ LastOutcome = "ok") =>
           \A i \in DOMAIN result.docs : result.docs[i].cohere_score > 0

(* C23: concurrent search calls on one agent share no mutable state: no    *)
(* attribute of the agent or of its reranker that one call writes is read  *)
(* or written by another call.                                             *)
C23_NoSharedMutableState ==
    \A v \in SharedNames : Cardinality(accessed[v]) <= 1

\* no call is under way
Quiescent == \A c \in Calls : tpc[c] \in {"ready", "finished"}

\* what is left of the entries stored before is their newest part, in order:
\* each is followed by the next one stored, the last of them is entry 0
OldestDropped(history) ==
    \A i \in DOMAIN history :
        history[i] <= 0 =>
            IF i < Len(history) /\ history[i + 1] <= 0
            THEN history[i + 1] = history[i] + 1
            ELSE history[i] = 0

(* C24: the history of past calls is bounded: between calls neither the    *)
(* agent's metrics list nor the reranker's metrics_history is longer than  *)
(* the cap of 1000 entries, and what was dropped are the oldest entries.   *)
C24_HistoriesBounded ==
    Quiescent =>
        /\ Len(metrics) <= HistoryCap
        /\ Len(metrics_history) <= HistoryCap
        /\ OldestDropped(metrics)
        /\ OldestDropped(metrics_history)

\* the calls that went through _store_metrics
Stored == {c \in Calls : tkind[c] \in {"search", "rerank"}}

(* C30: no metrics entry is lost when rerank calls run concurrently: once  *)
(* every call has finished, metrics_history holds the entry of each of the *)
(* NCalls (fewer than 1000) calls that stored one, and is as long as the   *)
(* entries before and theirs together, up to the cap.                      *)
C30_NoEntryLost ==
    (\A c \in Calls : tpc[c] = "finished") =>
        /\ \A c \in Stored : \E i \in DOMAIN metrics_history : metrics_history[i] = c
        /\ \E n \in PriorLengths :
               Len(metrics_history) = Min(n + Cardinality(Stored), HistoryCap)

\* the batch (from 1) the text at position j (from 1) is sent in
BatchOfPosition(j) == ((j - 1) \div batch_size) + 1

(* C25: _generate_embeddings returns one vector per text, in the order of  *)
(* the texts, whichever batches the provider fails on: a text of a failed  *)
(* batch gets the zero vector at its own position, every other text its    *)
(* own vector at its own position.                                         *)
C25_OneVectorPerTextInOrder ==
    (caller = "embeddings" /\ pc = "done") =>
        /\ Len(fn_out) = Len(fn_in.texts)
        /\ \A j \in DOMAIN fn_in.texts :
               fn_out[j] = IF BatchOfPosition(j) \in fn_in.failed
                           THEN ZeroVector
                           ELSE Embedding(fn_in.texts[j])

\* three batches, the middle one failed
C25_Witness ==
    /\ caller = "embeddings"
    /\ pc = "done"
    /\ Len(fn_in.texts) = 2 * batch_size + 1
    /\ fn_in.failed = {2}
    /\ fn_out[batch_size] = Embedding(batch_size)
    /\ fn_out[batch_size + 1] = ZeroVector
    /\ fn_out[2 * batch_size] = ZeroVector
    /\ fn_out[2 * batch_size + 1] = Embedding(2 * batch_size + 1)

\* the representation of d can be built and is longer than 10 characters
Representable(d) == ~ContextRaises(d) /\ ContextLen(d) > MinContent

\* how many of the inputs before position n (from 1) have a representation
\* that is submitted: the position (from 0) of input n in the list submitted
SubmittedBefore(n) == Cardinality({j \in 1 .. (n - 1) : Representable(rr_results[j])})

(* C26: a document whose representation is empty, at most 10 characters    *)
(* long or cannot be built is not submitted and is in no successful rerank *)
(* output; a document of the output stems from the response entry of its   *)
(* rank, whose index is the document's position in the list submitted (not *)
(* its position among the inputs) and whose score it carries.              *)
C26_ShortLeftOutIndexMappedBack ==
    (caller = "rerank" /\ pc = "done" /\ Succeeded) =>
        /\ \A s \in DOMAIN serviceCalls :
               serviceCalls[s].top_n
                   = Min(rr_top_k, SubmittedBefore(Len(rr_results) + 1))
        /\ \A i \in DOMAIN rr_out.docs :
               LET d == rr_out.docs[i]
                   n == d.original_index + 1
               IN /\ n \in DOMAIN rr_results
                  /\ rr_results[n].id = d.id
                  /\ Representable(rr_results[n])
                  /\ d.cohere_rank \in DOMAIN response
                  /\ response[d.cohere_rank].index = SubmittedBefore(n)
                  /\ response[d.cohere_rank].relevance_score = d.cohere_score

\* the 10-character row comes first and is left out: index 0 of the answer
\* is the second input
C26_Witness ==
    /\ caller = "rerank"
    /\ pc = "done"
    /\ Succeeded
    /\ rr_results = <<RowShort, RowBrief>>
    /\ ContextLen(RowShort) = MinContent
    /\ Len(response) = 2
    /\ response[2].index = 0
    /\ response[2].relevance_score = 500
    /\ Len(rr_out.docs) = 1
    /\ rr_out.docs[1].id = 7
    /\ rr_out.docs[1].original_index = 1
    /\ rr_out.docs[1].cohere_rank = 2

\* entry number r of the response cannot be mapped to a submitted document
\* or its score cannot be converted
Malformed(r) ==
    \/ response[r].index \notin 0 .. (Len(PrepareDocuments(rr_results)) - 1)
    \/ response[r].relevance_score = BadScore

(* C27: when the answer of the service holds an entry that cannot be       *)
(* mapped or parsed, rerank skips that entry alone: the answer is the last *)
(* invocation of the service, nothing is waited for after it, the call is  *)
(* recorded as a success, the documents returned all stem from the answer, *)
(* none from the skipped entry, and (the service having answered at most   *)
(* top_n entries) every other entry that is well formed and at or above    *)
(* the floor is in the output.                                             *)
C27_MalformedEntrySkippedAlone ==
    (/\ caller = "rerank"
     /\ pc = "done"
     /\ LastOutcome = "ok"
     /\ \E r \in DOMAIN response : Malformed(r)) =>
        /\ rr_out.kind = "returned"
        /\ \A i \in 1 .. (Len(serviceCalls) - 1) :
               serviceCalls[i].outcome = "api_error"
        /\ Len(waits) = Len(serviceCalls) - 1
        /\ metrics_history # <<>>
        /\ metrics_history[Len(metrics_history)].success
        /\ metrics_history[Len(metrics_history)].reranked_count = Len(rr_out.docs)
        /\ \A i \in DOMAIN rr_out.docs :
               /\ rr_out.docs[i].cohere_rank \in DOMAIN response
               /\ ~Malformed(rr_out.docs[i].cohere_rank)
        /\ HonoursTopN =>
               \A r \in DOMAIN response :
                   (~Malformed(r)
                       /\ response[r].relevance_score >= relevance_threshold)
                   => IsInOutput(r)

\* the first entry names no submitted document and the second is kept
C27_Witness ==
    /\ caller = "rerank"
    /\ pc = "done"
    /\ LastOutcome = "ok"
    /\ Len(serviceCalls) = 1
    /\ HonoursTopN
    /\ Len(response) = 2
    /\ response[1].index = Len(PrepareDocuments(rr_results))
    /\ response[2].relevance_score >= relevance_threshold
    /\ ~Malformed(2)
    /\ Len(rr_out.docs) = 1
    /\ rr_out.docs[1].cohere_rank = 2

\* the first entry carries a score that is no number and the second is kept
C27_WitnessUnparseable ==
    /\ caller = "rerank"
    /\ pc = "done"
    /\ LastOutcome = "ok"
    /\ HonoursTopN
    /\ Len(response) = 2
    /\ response[1].relevance_score = BadScore
    /\ response[1].index = 0
    /\ ~Malformed(2)
    /\ Len(rr_out.docs) = 1
    /\ rr_out.docs[1].cohere_rank = 2

\* n retrieval round trips
Retrieves(n) == [i \in 1 .. n |-> "retrieve"]

\* the last steps of a search: the scorer is not run on an empty list, nor
\* after a rerank that raised
LastSteps ==
    <<"dedup", "rerank">>
        \o (IF rr_out.kind = "returned" /\ rr_out.docs # <<>>
            THEN <<"score">> ELSE <<>>)

\* the log s holds a call of rerank
CalledRerank(s) == \E i \in DOMAIN s : s[i] = "rerank"

\* s is the beginning of t
IsBeginning(s, t) == Len(s) <= Len(t) /\ \A i \in DOMAIN s : s[i] = t[i]

(* C28 as stated: a valid search has taken its steps in the order query    *)
(* expansion, the retrieval round trips of the original query and of every *)
(* variant, deduplication, rerank, hybrid scoring.                         *)
C28_ExpansionBeforeRetrieval ==
    (caller = "search" /\ pc = "done" /\ ~InvalidRequest) =>
        steps = <<"expand">> \o Retrieves(1 + Len(related_queries)) \o LastSteps

(* C28 amended: a valid search first makes the retrieval round trip of the *)
(* original query, then expands the query, then makes one round trip per   *)
(* variant, then deduplicates, calls rerank and runs the hybrid scorer, in *)
(* that order; the body runs once and rerank is called once, at the moment *)
(* every round trip is made, with the original query, the top_k of the     *)
(* search and the first-seen hit of each id among all merged hits; the     *)
(* hybrid scorer runs on the documents rerank returned and on no other,    *)
(* and not at all when rerank returned none.                               *)
C28_RetrievalExpansionFanOutDedupRerankScore ==
    /\ [](caller = "search" =>
            /\ IsBeginning(steps, <<"retrieve", "expand">>
                                      \o Retrieves(Len(related_queries))
                                      \o <<"dedup", "rerank", "score">>)
            /\ (pc = "done" /\ ~InvalidRequest) =>
                   /\ steps = <<"retrieve", "expand">>
                                  \o Retrieves(Len(related_queries)) \o LastSteps
                   /\ bodyRuns = 1
                   /\ rr_query = query
                   /\ rr_top_k = top_k
                   /\ rr_results = unique_results
                   /\ result.kind = "ranked" =>
                          /\ Len(result.docs) = Len(rr_out.docs)
                          /\ \A i \in DOMAIN rr_out.docs :
                                 \E j \in DOMAIN result.docs :
                                     result.docs[j].id = rr_out.docs[i].id)
    /\ [][(caller = "search" /\ ~CalledRerank(steps) /\ CalledRerank(steps')) =>
                /\ Len(trips) = 1 + Len(related_queries)
                /\ all_results = MergedWithoutFailed(trips)
                /\ rr_query' = query
                /\ rr_top_k' = top_k
                /\ rr_results' = FirstSeen(all_results, SameId)
                /\ pc' = "rerank"]_vars

\* a search of a query with variants that went through every step
C28_Witness ==
    /\ caller = "search"
    /\ pc = "done"
    /\ Len(related_queries) >= 2
    /\ steps = <<"retrieve", "expand">> \o Retrieves(Len(related_queries))
                   \o <<"dedup", "rerank", "score">>
    /\ rr_query = query
    /\ Len(unique_results) = 2
    /\ Len(serviceCalls) = 1
    /\ result.kind = "ranked"

(* C29: a call of search_mentions runs its body once and never raises, and *)
(* when it has returned the agent's metrics list holds exactly one entry   *)
(* more than before the call: an entry with the error when the request was *)
(* rejected, and otherwise an entry with the number of documents rerank    *)
(* returned, be the retrieval failed, the rerank degraded or the           *)
(* formatting in error.                                                    *)
C29_OneMetricPerSearch ==
    caller = "search" =>
        /\ bodyRuns <= 1
        /\ result.kind # "raised"
        /\ Len(metrics) = (IF pc = "done" THEN 1 ELSE 0)
        /\ pc = "done" =>
               /\ bodyRuns = 1
               /\ InvalidRequest =>
                      /\ metrics[1].error = "validation"
                      /\ result.kind = "error"
                      /\ steps = <<>>
               /\ ~InvalidRequest =>
                      /\ metrics[1].error = "none"
                      /\ metrics[1].results_count = Len(rr_out.docs)
                      /\ result.kind \in {"ranked", "no_mentions", "format_error"}

\* the formatting failed after the metric of the search was stored
C29_Witness ==
    /\ caller = "search"
    /\ pc = "done"
    /\ result.kind = "format_error"
    /\ bodyRuns = 1
    /\ Len(metrics) = 1
    /\ metrics[1].results_count > 0

\* the other ways through a search: rejected, base retrieval failed,
\* service out of attempts, success
C29_WitnessRejected ==
    caller = "search" /\ pc = "done" /\ InvalidRequest /\ Len(metrics) = 1

C29_WitnessRetrievalFailed ==
    /\ caller = "search"
    /\ pc = "done"
    /\ base_status = "query_failed"
    /\ Len(metrics) = 1

C29_WitnessDegraded ==
    /\ caller = "search"
    /\ pc = "done"
    /\ Exhausted
    /\ Len(metrics) = 1
    /\ metrics[1].results_count > 0

C29_WitnessSuccess ==
    /\ caller = "search"
    /\ pc = "done"
    /\ Succeeded
    /\ result.kind = "ranked"
    /\ Len(metrics) = 1

====
